---- MODULE Spec2Model ----
(***************************************************************************)
(* Model of scraper.py: the top-level driver over the root catalog,        *)
(* process_xml_link (fetch with retry, classification, lot extraction,     *)
(* recursive dataset expansion) and the two append-only CSV tables.        *)
(***************************************************************************)
EXTENDS Integers, Sequences, FiniteSets, TLC

VARIABLES
    yearFound,  \* re.search(r"l190-(\d{4})\.xml", input_filename) matched
    catalog,    \* the "comunicazione" elements of the root catalog, in order
    web,        \* URL -> document served there (Unseen until first response)
    i,          \* number of catalog entries the driver loop has taken
    mainPc,     \* "loop" | "status" (line 194 is next) | "done" | "crashed"
    return_code, \* __main__'s return_code (None before its first assignment)
    mark,       \* lengths of out and fetchLog when the current seed was taken
    stack,      \* call stack of process_xml_link invocations, seed first
    out,        \* rows of the output CSV
    status,     \* rows of the status CSV
    fetchLog,   \* URL of every make_request call, in call order
    failures    \* make_request calls that raised so far in this run

vars ==
    <<yearFound, catalog, web, i, mainPc, return_code, mark, stack, out, status,
      fetchLog, failures>>

----------------------------------------------------------------------------
(* Bounds of the model *)

NumUrls == 3
MaxLinks == 2
MaxCatalog == 2
MaxDepth == 3
MaxFailures == 1
MaxLen == 2
DurSteps == 2

(* Program constants *)

StopMaxAttemptNumber == 3
WaitFixed == 1000
StopMaxDelay == 5000
RequestTimeout == 5000
None == -1

----------------------------------------------------------------------------
(* Values *)

URLs == 1..NumUrls
Absent == "absent"          \* element.find(...) returned None
NoText == "none"            \* element present, .text is None
Unseen == <<>>              \* no response received from the URL yet

SeqsUpTo(S, n) == UNION {[1..k -> S] : k \in 0..n}

RECURSIVE Count(_, _)
Count(s, x) ==
    IF s = <<>> THEN 0
    ELSE (IF Head(s) = x THEN 1 ELSE 0) + Count(Tail(s), x)

(* A partecipante / aggiudicatario element: its two identifier children *)
Elem(cf, ife) == [codiceFiscale |-> cf, identificativoFiscaleEstero |-> ife]
PartElems == {Elem("A", "B"), Elem(Absent, "B"), Elem(Absent, Absent)}

ATTRIBUTE_VOCABULARY == <<"codiceFiscale", "identificativoFiscaleEstero">>

RECURSIVE FirstPresent(_, _)
FirstPresent(element, variants) ==
    IF variants = <<>> THEN NoText
    ELSE IF element[Head(variants)] # Absent THEN element[Head(variants)]
    ELSE FirstPresent(element, Tail(variants))

get_attribute_value_SkipEmpty(element) ==
    IF element.codiceFiscale \notin {Absent, NoText} THEN element.codiceFiscale
    ELSE FirstPresent(element, Tail(ATTRIBUTE_VOCABULARY))

get_attribute_value(element) == FirstPresent(element, ATTRIBUTE_VOCABULARY)

(* A lotto element *)
Lotto(ente, cf, cig, ps, as) ==
    [denominazione |-> ente, codiceFiscaleProp |-> cf, cig |-> cig,
     partecipanti |-> ps, aggiudicatari |-> as]

Complete(lotto) ==
    /\ lotto.denominazione # Absent
    /\ lotto.codiceFiscaleProp # Absent
    /\ lotto.cig # Absent

(* One tuple of parse_lotto_xml's result *)
LotRecord(lotto) ==
    [ente |-> lotto.denominazione, cf_ente |-> lotto.codiceFiscaleProp,
     cig |-> lotto.cig,
     partecipanti |->
        [k \in DOMAIN lotto.partecipanti |-> get_attribute_value(lotto.partecipanti[k])],
     aggiudicatari |->
        [k \in DOMAIN lotto.aggiudicatari |-> get_attribute_value(lotto.aggiudicatari[k])]]

ParseRaises_OnNoParticipant(lots) ==
    \E k \in DOMAIN lots : ~Complete(lots[k]) \/ lots[k].partecipanti = <<>>

(* parse_lotto_xml on a well-formed document: .text of a missing mandatory *)
(* element raises AttributeError, which only process_xml_link catches.     *)
ParseRaises(lots) == \E k \in DOMAIN lots : ~Complete(lots[k])
parse_lotto_xml(lots) == [k \in DOMAIN lots |-> LotRecord(lots[k])]

(* update_csv: the rows written for one tuple, then for the whole list *)
In(x, s) == \E k \in DOMAIN s : s[k] = x

EffectivePartecipanti_NoFallback(rec) == rec.partecipanti

EffectivePartecipanti(rec) ==
    IF Len(rec.aggiudicatari) > 0 /\ Len(rec.partecipanti) = 0
    THEN rec.aggiudicatari
    ELSE rec.partecipanti

RowsOf_DropNull(rec) ==
    LET ps == SelectSeq(EffectivePartecipanti(rec), LAMBDA x : x # NoText)
    IN  [k \in DOMAIN ps |->
            <<rec.ente, rec.cf_ente, rec.cig, ps[k],
              IF In(ps[k], rec.aggiudicatari) THEN 1 ELSE 0>>]

RowsOf_WinnerByPosition(rec) ==
    LET ps == EffectivePartecipanti(rec)
    IN  [k \in DOMAIN ps |->
            <<rec.ente, rec.cf_ente, rec.cig, ps[k],
              IF k \in DOMAIN rec.aggiudicatari /\ rec.aggiudicatari[k] = ps[k]
              THEN 1 ELSE 0>>]

RowsOf(rec) ==
    LET ps == EffectivePartecipanti(rec)
    IN  [k \in DOMAIN ps |->
            <<rec.ente, rec.cf_ente, rec.cig, ps[k],
              IF In(ps[k], rec.aggiudicatari) THEN 1 ELSE 0>>]

RECURSIVE update_csv(_, _)
update_csv(table, data) ==
    IF data = <<>> THEN table
    ELSE update_csv(table \o RowsOf(Head(data)), Tail(data))

----------------------------------------------------------------------------
(* Documents *)

Doc(lots, dataset, links) ==
    [wf |-> TRUE, lots |-> lots, dataset |-> dataset, links |-> links]

(* A response body on which ET.fromstring raises ParseError *)
Malformed == [wf |-> FALSE, lots |-> <<>>, dataset |-> FALSE, links |-> <<>>]

WinnerLot == Lotto("ente", "cf", "cig", <<>>, <<Elem("A", Absent)>>)
EmptyLot == Lotto("ente", "cf", "cig", <<>>, <<>>)
NoCigLot == Lotto("ente", "cf", Absent, <<Elem("A", Absent)>>, <<>>)

LinkSeqs == SeqsUpTo(URLs, MaxLinks)

(* The documents a URL may serve: malformed; neither marker (with or       *)
(* without a linkDataset element); lot documents; a document with both     *)
(* markers; dataset documents with every list of links                     *)
CrawlDocs ==
    {Malformed}
    \cup {Doc(<<>>, FALSE, <<>>), Doc(<<>>, FALSE, <<2>>)}
    \cup {Doc(ls, FALSE, <<>>) :
            ls \in {<<WinnerLot>>, <<EmptyLot>>, <<WinnerLot, NoCigLot>>}}
    \cup {Doc(<<WinnerLot>>, TRUE, <<2>>)}
    \cup {Doc(<<>>, TRUE, ls) : ls \in LinkSeqs}

(* root.find(".//lotto") is not None / root.find(".//dataset") is not None *)
HasLotto_UnlessDataset(doc) == doc.lots # <<>> /\ ~doc.dataset
HasLotto(doc) == doc.lots # <<>>
HasDataset(doc) == doc.dataset

----------------------------------------------------------------------------
(* Root catalog *)

BadEntry == 0       \* a comunicazione lacking codiceFiscale, ragioneSociale or url
(* URLs are numbered in the order in which the catalog first names them *)
Catalogs ==
    {c \in SeqsUpTo(URLs \cup {BadEntry}, MaxCatalog) :
        \A k \in DOMAIN c :
            c[k] <= 1 + Cardinality({c[j] : j \in 1..(k - 1)} \ {BadEntry})}

Frame(url, base) ==
    [url |-> url, pc |-> "request", attempts |-> 0, durs |-> <<>>, slept |-> 0,
     fetched |-> FALSE, idx |-> 0, calls |-> 0, rc |-> None, base |-> base]

Top == stack[Len(stack)]
SetTop(f) == [stack EXCEPT ![Len(stack)] = f]

Init ==
    /\ yearFound \in BOOLEAN
    /\ catalog \in Catalogs
    /\ web = [u \in URLs |-> Unseen]
    /\ i = 0
    /\ mainPc = "loop"
    /\ return_code = None
    /\ mark = [out |-> 0, log |-> 0]
    /\ stack = <<>>
    /\ out = <<>>
    /\ status = <<>>
    /\ fetchLog = <<>>
    /\ failures = 0

----------------------------------------------------------------------------
(* __main__: the loop over the catalog *)

DriverNext_NoWait ==
    /\ mainPc \in {"loop", "status"}
    /\ stack = <<>>
    /\ i < Len(catalog)
    /\ i' = i + 1
    /\ IF catalog[i + 1] = BadEntry
       THEN UNCHANGED <<stack, fetchLog, mark>>
       ELSE /\ stack' = <<Frame(catalog[i + 1], Len(out))>>
            /\ fetchLog' = Append(fetchLog, catalog[i + 1])
            /\ mark' = [out |-> Len(out), log |-> Len(fetchLog)]
    /\ UNCHANGED <<yearFound, catalog, web, mainPc, return_code, out, status, failures>>

DriverNext ==
    /\ mainPc = "loop"
    /\ stack = <<>>
    /\ i < Len(catalog)
    /\ i' = i + 1
    /\ IF catalog[i + 1] = BadEntry
       THEN UNCHANGED <<stack, fetchLog, mark>>
       ELSE /\ stack' = <<Frame(catalog[i + 1], Len(out))>>
            /\ fetchLog' = Append(fetchLog, catalog[i + 1])
            /\ mark' = [out |-> Len(out), log |-> Len(fetchLog)]
    /\ UNCHANGED <<yearFound, catalog, web, mainPc, return_code, out, status, failures>>

Finish ==
    /\ mainPc = "loop"
    /\ stack = <<>>
    /\ i = Len(catalog)
    /\ mainPc' = "done"
    /\ UNCHANGED <<yearFound, catalog, web, i, return_code, mark, stack, out, status,
                   fetchLog, failures>>

----------------------------------------------------------------------------
(* make_request under @retry(stop_max_attempt_number=3, wait_fixed=1000,   *)
(* stop_max_delay=5000): one action per request attempt                    *)

Durations == {(k * RequestTimeout) \div DurSteps : k \in 0..DurSteps}

RECURSIVE Sum(_)
Sum(s) == IF s = <<>> THEN 0 ELSE Head(s) + Sum(Tail(s))

(* delay_since_first_attempt_ms after an attempt *)
Elapsed(f) == Sum(f.durs) + f.slept

ShouldStop_AttemptsOnly(attempts, delay) == attempts >= StopMaxAttemptNumber

(* the wrapper's stop test: any of its two stop conditions *)
ShouldStop(attempts, delay) ==
    attempts >= StopMaxAttemptNumber \/ delay >= StopMaxDelay

(* The attempt returns a 2xx response: the document of the URL *)
AttemptOk(docs) ==
    /\ stack # <<>>
    /\ Top.pc = "request"
    /\ \E doc \in (IF web[Top.url] = Unseen THEN docs ELSE {web[Top.url][1]}) :
          web' = [web EXCEPT ![Top.url] = <<doc>>]
    /\ stack' = SetTop([Top EXCEPT !.pc = "fetched", !.fetched = TRUE,
                                   !.attempts = @ + 1])
    /\ UNCHANGED <<yearFound, catalog, i, mainPc, return_code, mark, out, status,
                   fetchLog, failures>>

(* The attempt raises (transport error, timeout, 4xx/5xx) after d ms; the  *)
(* retry wrapper re-raises or sleeps wait_fixed before the next attempt    *)
AttemptFail ==
    /\ stack # <<>>
    /\ Top.pc = "request"
    /\ \E d \in Durations :
          LET n == Top.attempts + 1
              t == Elapsed(Top) + d
          IN  IF ShouldStop(n, t)
              THEN /\ failures < MaxFailures
                   /\ failures' = failures + 1
                   /\ stack' = SetTop([Top EXCEPT !.pc = "failed", !.attempts = n,
                                                  !.durs = Append(@, d)])
              ELSE /\ failures' = failures
                   /\ stack' = SetTop([Top EXCEPT !.attempts = n,
                                                  !.durs = Append(@, d),
                                                  !.slept = @ + WaitFixed])
    /\ UNCHANGED <<yearFound, catalog, web, i, mainPc, return_code, mark, out, status,
                   fetchLog>>

----------------------------------------------------------------------------
(* process_xml_link *)

(* make_request is over: the retry wrapper's locals are gone *)
Done(f) == [f EXCEPT !.attempts = 0, !.durs = <<>>, !.slept = 0]

FetchError_AsProcessingError ==
    /\ stack # <<>>
    /\ Top.pc = "failed"
    /\ stack' = SetTop([Done(Top) EXCEPT !.pc = "return", !.rc = 2])
    /\ UNCHANGED <<yearFound, catalog, web, i, mainPc, return_code, mark, out, status,
                   fetchLog, failures>>

(* lines 84-88: make_request raised; log and return 1 *)
FetchError ==
    /\ stack # <<>>
    /\ Top.pc = "failed"
    /\ stack' = SetTop([Done(Top) EXCEPT !.pc = "return", !.rc = 1])
    /\ UNCHANGED <<yearFound, catalog, web, i, mainPc, return_code, mark, out, status,
                   fetchLog, failures>>

Process_StreamingWrite ==
    /\ stack # <<>>
    /\ Top.pc = "fetched"
    /\ LET doc == web[Top.url][1]
       IN  IF ~doc.wf
           THEN /\ stack' = SetTop([Done(Top) EXCEPT !.pc = "return", !.rc = 2])
                /\ out' = out
           ELSE IF HasLotto(doc)
           THEN IF ParseRaises(doc.lots)
                THEN /\ stack' = SetTop([Done(Top) EXCEPT !.pc = "return", !.rc = 2])
                     /\ out' = update_csv(out, parse_lotto_xml(SelectSeq(doc.lots, Complete)))
                ELSE /\ out' = update_csv(out, parse_lotto_xml(doc.lots))
                     /\ stack' = SetTop([Done(Top) EXCEPT !.pc = "return", !.rc = 0])
           ELSE IF HasDataset(doc)
           THEN /\ stack' = SetTop([Done(Top) EXCEPT !.pc = "links", !.idx = 1])
                /\ out' = out
           ELSE /\ stack' = SetTop([Done(Top) EXCEPT !.pc = "return", !.rc = None])
                /\ out' = out
    /\ UNCHANGED <<yearFound, catalog, web, i, mainPc, return_code, mark, status,
                   fetchLog, failures>>

(* lines 89-108 up to the call of process_dataset_xml or the return *)
Process ==
    /\ stack # <<>>
    /\ Top.pc = "fetched"
    /\ LET doc == web[Top.url][1]
       IN  IF ~doc.wf
           THEN /\ stack' = SetTop([Done(Top) EXCEPT !.pc = "return", !.rc = 2])
                /\ out' = out
           ELSE IF HasLotto(doc)
           THEN IF ParseRaises(doc.lots)
                THEN /\ stack' = SetTop([Done(Top) EXCEPT !.pc = "return", !.rc = 2])
                     /\ out' = out
                ELSE /\ out' = update_csv(out, parse_lotto_xml(doc.lots))
                     /\ stack' = SetTop([Done(Top) EXCEPT !.pc = "return", !.rc = 0])
           ELSE IF HasDataset(doc)
           THEN /\ stack' = SetTop([Done(Top) EXCEPT !.pc = "links", !.idx = 1])
                /\ out' = out
           ELSE /\ stack' = SetTop([Done(Top) EXCEPT !.pc = "return", !.rc = None])
                /\ out' = out
    /\ UNCHANGED <<yearFound, catalog, web, i, mainPc, return_code, mark, status,
                   fetchLog, failures>>

DatasetStep_ExcludesReferrer ==
    /\ stack # <<>>
    /\ Top.pc = "links"
    /\ LET links == web[Top.url][1].links
           parent_xml_link == IF Len(stack) > 1 THEN stack[Len(stack) - 1].url ELSE Top.url
       IN  IF Top.idx > Len(links)
           THEN /\ stack' = SetTop([Top EXCEPT !.pc = "return", !.rc = 0])
                /\ fetchLog' = fetchLog
           ELSE IF links[Top.idx] # parent_xml_link
           THEN /\ Len(stack) < MaxDepth
                /\ stack' = Append(SetTop([Top EXCEPT !.calls = @ + 1]),
                                   Frame(links[Top.idx], Len(out)))
                /\ fetchLog' = Append(fetchLog, links[Top.idx])
           ELSE /\ stack' = SetTop([Top EXCEPT !.idx = @ + 1])
                /\ fetchLog' = fetchLog
    /\ UNCHANGED <<yearFound, catalog, web, i, mainPc, return_code, mark, out, status,
                   failures>>

(* process_dataset_xml: one iteration of the loop over the links, or its   *)
(* end, after which process_xml_link skips update_csv and returns 0        *)
DatasetStep ==
    /\ stack # <<>>
    /\ Top.pc = "links"
    /\ LET links == web[Top.url][1].links
           parent_xml_link == Top.url
       IN  IF Top.idx > Len(links)
           THEN /\ stack' = SetTop([Top EXCEPT !.pc = "return", !.rc = 0])
                /\ fetchLog' = fetchLog
           ELSE IF links[Top.idx] # parent_xml_link
           THEN /\ Len(stack) < MaxDepth
                /\ stack' = Append(SetTop([Top EXCEPT !.calls = @ + 1]),
                                   Frame(links[Top.idx], Len(out)))
                /\ fetchLog' = Append(fetchLog, links[Top.idx])
           ELSE /\ stack' = SetTop([Top EXCEPT !.idx = @ + 1])
                /\ fetchLog' = fetchLog
    /\ UNCHANGED <<yearFound, catalog, web, i, mainPc, return_code, mark, out, status,
                   failures>>

ReturnNested_Propagate ==
    /\ Len(stack) > 1
    /\ Top.pc = "return"
    /\ LET caller == stack[Len(stack) - 1]
       IN  stack' = Append(SubSeq(stack, 1, Len(stack) - 2),
                           IF Top.rc = 0
                           THEN [caller EXCEPT !.idx = @ + 1]
                           ELSE [caller EXCEPT !.pc = "return", !.rc = Top.rc])
    /\ UNCHANGED <<yearFound, catalog, web, i, mainPc, return_code, mark, out, status,
                   fetchLog, failures>>

(* line 64: a nested process_xml_link returns; its value is dropped *)
ReturnNested ==
    /\ Len(stack) > 1
    /\ Top.pc = "return"
    /\ LET caller == stack[Len(stack) - 1]
       IN  stack' = Append(SubSeq(stack, 1, Len(stack) - 2),
                           [caller EXCEPT !.idx = @ + 1])
    /\ UNCHANGED <<yearFound, catalog, web, i, mainPc, return_code, mark, out, status,
                   fetchLog, failures>>

(* line 193: the seed's call returns into return_code *)
ReturnSeed ==
    /\ mainPc = "loop"
    /\ Len(stack) = 1
    /\ Top.pc = "return"
    /\ stack' = <<>>
    /\ return_code' = Top.rc
    /\ mainPc' = "status"
    /\ UNCHANGED <<yearFound, catalog, web, i, mark, out, status, fetchLog, failures>>

(* line 194: update_status_csv with the row (year, cf_ente, name_ente, url, *)
(* return_code); `year` is bound only if the file name matched (line 178), *)
(* otherwise evaluating the row raises NameError and the run ends          *)
WriteStatus ==
    /\ mainPc = "status"
    /\ IF yearFound
       THEN /\ status' = Append(status, <<"year", catalog[i], return_code>>)
            /\ mainPc' = "loop"
       ELSE /\ status' = status
            /\ mainPc' = "crashed"
    /\ UNCHANGED <<yearFound, catalog, web, i, return_code, mark, stack, out, fetchLog,
                   failures>>

Next ==
    \/ DriverNext
    \/ Finish
    \/ AttemptOk(CrawlDocs)
    \/ AttemptFail
    \/ FetchError
    \/ Process
    \/ DatasetStep
    \/ ReturnNested
    \/ ReturnSeed
    \/ WriteStatus

Spec == Init /\ [][Next]_vars

----------------------------------------------------------------------------
(* The same program on lot documents with arbitrary (bounded) content, in  *)
(* a run whose file name carries the year: the lot document is the seed    *)
(* itself, or the only link of a dataset seed                              *)

Mandatory ==
    {<<"ente", "cf", "cig">>, <<Absent, "cf", "cig">>, <<"ente", Absent, "cig">>,
     <<"ente", "cf", Absent>>}

ElemSeqs == SeqsUpTo(PartElems, MaxLen)

AnyLots == {Lotto(m[1], m[2], m[3], ps, as) : m \in Mandatory, ps \in ElemSeqs, as \in ElemSeqs}

AnyLotDocs ==
    {Doc(<<l>>, FALSE, <<>>) : l \in AnyLots}
    \cup {Doc(<<l, s>>, FALSE, <<>>) : l \in AnyLots, s \in {WinnerLot, NoCigLot}}

InitLot ==
    /\ yearFound = TRUE
    /\ catalog \in {<<BadEntry, 1>>, <<2>>}
    /\ \E d \in AnyLotDocs :
          web = [u \in URLs |->
                    IF u = 1 THEN <<d>>
                    ELSE IF u = 2 THEN <<Doc(<<>>, TRUE, <<1>>)>>
                    ELSE Unseen]
    /\ i = 0
    /\ mainPc = "loop"
    /\ return_code = None
    /\ mark = [out |-> 0, log |-> 0]
    /\ stack = <<>>
    /\ out = <<>>
    /\ status = <<>>
    /\ fetchLog = <<>>
    /\ failures = 0

SpecLot == InitLot /\ [][Next]_vars

----------------------------------------------------------------------------
(* The same program on one-lot documents whose partecipante and            *)
(* aggiudicatario elements carry every combination of the two identifier   *)
(* tags: absent, present without text, present with text                   *)

TagValues == {Absent, NoText, "A", "B"}
AnyElems == {Elem(cf, ife) : cf \in TagValues, ife \in TagValues}

VocabDocs ==
    {Doc(<<Lotto("ente", "cf", "cig", ps, as)>>, FALSE, <<>>) :
        ps \in SeqsUpTo(AnyElems, MaxLen),
        as \in {<<>>, <<Elem(Absent, "B")>>, <<Elem(NoText, "B")>>}}

InitVocab ==
    /\ yearFound = TRUE
    /\ catalog \in {<<BadEntry, 1>>, <<2>>}
    /\ \E d \in VocabDocs :
          web = [u \in URLs |->
                    IF u = 1 THEN <<d>>
                    ELSE IF u = 2 THEN <<Doc(<<>>, TRUE, <<1>>)>>
                    ELSE Unseen]
    /\ i = 0
    /\ mainPc = "loop"
    /\ return_code = None
    /\ mark = [out |-> 0, log |-> 0]
    /\ stack = <<>>
    /\ out = <<>>
    /\ status = <<>>
    /\ fetchLog = <<>>
    /\ failures = 0

SpecVocab == InitVocab /\ [][Next]_vars

----------------------------------------------------------------------------
(* The web as known so far, and the kind of a document as               *)
(* process_xml_link classifies it (lines 92-101)                         *)

DocAt(u) == web[u][1]
Known(u) == web[u] # Unseen
IsLotDoc(doc) == doc.wf /\ HasLotto(doc)
IsDatasetDoc(doc) == doc.wf /\ ~HasLotto(doc) /\ HasDataset(doc)
IsUnknownDoc(doc) == doc.wf /\ ~HasLotto(doc) /\ ~HasDataset(doc)

----------------------------------------------------------------------------
(* The same program on a web whose link graph is acyclic: a URL answering  *)
(* for the first time serves a document none of whose followed links leads *)
(* back to it. The interpreter always takes its next step (weak fairness). *)

(* the links process_dataset_xml iterates over when given the document *)
FollowedLinks(doc) == IF IsDatasetDoc(doc) THEN doc.links ELSE <<>>

RECURSIVE Reaches(_, _, _)
Reaches(a, u, n) ==
    \/ a = u
    \/ /\ n > 0
       /\ Known(a)
       /\ \E m \in DOMAIN FollowedLinks(DocAt(a)) :
             Reaches(FollowedLinks(DocAt(a))[m], u, n - 1)

AcyclicDocs ==
    {d \in CrawlDocs :
        \A m \in DOMAIN FollowedLinks(d) : ~Reaches(FollowedLinks(d)[m], Top.url, NumUrls)}

NextAcyclic ==
    \/ DriverNext
    \/ Finish
    \/ AttemptOk(AcyclicDocs)
    \/ AttemptFail
    \/ FetchError
    \/ Process
    \/ DatasetStep
    \/ ReturnNested
    \/ ReturnSeed
    \/ WriteStatus

SpecAcyclic == Init /\ [][NextAcyclic]_vars /\ WF_vars(NextAcyclic)

----------------------------------------------------------------------------
(* Vocabulary of the properties *)

(* The top invocation is about to return after a successful fetch *)
Returning == stack # <<>> /\ Top.pc = "return" /\ Top.fetched
(* The rows the top invocation has appended *)
Appended == SubSeq(out, Top.base + 1, Len(out))

Ids(elems) == [k \in DOMAIN elems |-> get_attribute_value(elems[k])]

(* participants of a lot as the flattening rule sees them *)
ExpectedCount(lotto) ==
    IF lotto.partecipanti # <<>> THEN Len(lotto.partecipanti)
    ELSE Len(lotto.aggiudicatari)

RECURSIVE RowsBefore(_, _)
RowsBefore(lots, k) ==
    IF k = 1 THEN 0 ELSE RowsBefore(lots, k - 1) + ExpectedCount(lots[k - 1])

RECURSIVE CompleteRows(_)
CompleteRows(lots) ==
    IF lots = <<>> THEN 0
    ELSE (IF Complete(Head(lots)) THEN ExpectedCount(Head(lots)) ELSE 0)
         + CompleteRows(Tail(lots))

(* The seed taken last has been dealt with: its call returned and line 194 ran *)
SeedDone ==
    /\ stack = <<>>
    /\ i > 0
    /\ catalog[i] # BadEntry
    /\ mainPc \in {"loop", "done", "crashed"}
Seeds(n) == {k \in 1..n : catalog[k] # BadEntry}
SeedLog == SubSeq(fetchLog, mark.log + 1, Len(fetchLog))

----------------------------------------------------------------------------
(* C1: cycle avoidance against the immediate parent. When the seed P is a  *)
(* dataset document, it is expanding a link D, and D is a dataset document *)
(* that links back to P, P has been fetched once in the resolution of the  *)
(* seed.                                                                   *)
C1_ParentNotRefetched ==
    Len(stack) >= 2 =>
        LET P == stack[1].url
            D == stack[2].url
        IN  (Known(D) /\ IsDatasetDoc(DocAt(D)) /\ In(P, DocAt(D).links))
                => Count(SeedLog, P) = 1

(* C2: per-lot isolation. When process_xml_link returns for a lot document, *)
(* the rows of every lot that has its three mandatory fields have been     *)
(* appended, whatever its sibling lots lack.                               *)
C2_SiblingLotsKept ==
    (Returning /\ IsLotDoc(DocAt(Top.url)))
        => Len(Appended) = CompleteRows(DocAt(Top.url).lots)

(* C3: flattening with participants. For a lot with a non-empty            *)
(* participants list, update_csv appends one row per participant entry, in *)
(* document order, duplicates kept, each (ente, cf_ente, cig, id, winner)  *)
(* with winner = 1 iff the id occurs among the awardees' ids.              *)
C3_Flattening ==
    (Returning /\ Top.rc = 0 /\ IsLotDoc(DocAt(Top.url)))
        => LET lots == DocAt(Top.url).lots
           IN  /\ Len(Appended) = RowsBefore(lots, Len(lots) + 1)
               /\ \A k \in DOMAIN lots :
                    lots[k].partecipanti # <<>> =>
                        LET ps == Ids(lots[k].partecipanti)
                            aw == Ids(lots[k].aggiudicatari)
                            off == RowsBefore(lots, k)
                        IN  \A j \in DOMAIN ps :
                                Appended[off + j] =
                                    <<lots[k].denominazione, lots[k].codiceFiscaleProp,
                                      lots[k].cig, ps[j],
                                      IF ps[j] \in {aw[n] : n \in DOMAIN aw} THEN 1 ELSE 0>>

C3_Witness ==
    /\ Returning /\ Top.rc = 0 /\ IsLotDoc(DocAt(Top.url))
    /\ Ids(DocAt(Top.url).lots[1].partecipanti) = <<"A", "B">>
    /\ Ids(DocAt(Top.url).lots[1].aggiudicatari) = <<"B">>
    /\ Appended[1][5] = 0
    /\ Appended[2][5] = 1

(* C4: implicit participants. For a lot with no participant and at least   *)
(* one awardee, update_csv appends one row per awardee, in awardee order,   *)
(* each with winner = 1; the document's awardees are as they were.          *)
C4_ImplicitParticipants ==
    (Returning /\ Top.rc = 0 /\ IsLotDoc(DocAt(Top.url)))
        => LET lots == DocAt(Top.url).lots
           IN  \A k \in DOMAIN lots :
                 (lots[k].partecipanti = <<>> /\ lots[k].aggiudicatari # <<>>) =>
                    LET aw == Ids(lots[k].aggiudicatari)
                        off == RowsBefore(lots, k)
                    IN  /\ off + Len(aw) <= Len(Appended)
                        /\ \A j \in DOMAIN aw :
                                Appended[off + j] =
                                    <<lots[k].denominazione, lots[k].codiceFiscaleProp,
                                      lots[k].cig, aw[j], 1>>

C4_Witness ==
    /\ Returning /\ Top.rc = 0 /\ IsLotDoc(DocAt(Top.url))
    /\ Len(DocAt(Top.url).lots) = 1
    /\ DocAt(Top.url).lots[1].partecipanti = <<>>
    /\ Ids(DocAt(Top.url).lots[1].aggiudicatari) = <<"A", "B">>
    /\ Len(Appended) = 2

(* C5: empty lot. For a lot document whose lots have their mandatory fields *)
(* and neither participants nor awardees, process_xml_link appends no row   *)
(* and returns 0.                                                           *)
AllEmptyLots(lots) ==
    \A k \in DOMAIN lots :
        Complete(lots[k]) /\ lots[k].partecipanti = <<>> /\ lots[k].aggiudicatari = <<>>

C5_EmptyLot ==
    (Returning /\ IsLotDoc(DocAt(Top.url)) /\ AllEmptyLots(DocAt(Top.url).lots))
        => Top.rc = 0 /\ Len(out) = Top.base

C5_Witness ==
    /\ Returning /\ IsLotDoc(DocAt(Top.url)) /\ AllEmptyLots(DocAt(Top.url).lots)
    /\ Top.rc = 0

(* C6: return codes. process_xml_link returns 1 exactly when make_request   *)
(* raised; after a successful fetch it returns 2 for a malformed document   *)
(* or a lot document with a lot lacking a mandatory field, and 0 for a lot  *)
(* document with complete lots or a dataset document.                       *)
C6_ReturnCodes ==
    (stack # <<>> /\ Top.pc = "return")
        => /\ Top.rc \in {0, 1, 2, None}
           /\ Top.rc = 1 <=> ~Top.fetched
           /\ Top.fetched =>
                LET doc == DocAt(Top.url)
                IN  /\ (~doc.wf \/ (IsLotDoc(doc) /\ \E k \in DOMAIN doc.lots :
                                                        ~Complete(doc.lots[k])))
                            => Top.rc = 2
                    /\ ((IsLotDoc(doc) /\ \A k \in DOMAIN doc.lots : Complete(doc.lots[k]))
                            \/ IsDatasetDoc(doc))
                            => Top.rc = 0

C6_Witness ==
    /\ Len(stack) = 2 /\ Top.pc = "return" /\ Top.rc = 1
    /\ failures = 1

(* C7: unrecognized schema. Once a seed whose document is well-formed with  *)
(* neither a lot nor a dataset descendant has been dealt with, no output    *)
(* row was appended for it, no link was followed, and the status table has  *)
(* one row per seed so far, the last one for this seed with return code     *)
(* None.                                                                    *)
C7_Unrecognized ==
    (SeedDone /\ Known(catalog[i]) /\ IsUnknownDoc(DocAt(catalog[i])) /\ return_code # 1)
        => /\ Len(out) = mark.out
           /\ SeedLog = <<catalog[i]>>
           /\ return_code = None
           /\ None \notin {0, 1, 2}
           /\ Len(status) = Cardinality(Seeds(i))
           /\ status[Len(status)] = <<"year", catalog[i], None>>

(* C8 as claimed: a make_request call whose attempts all fail makes exactly *)
(* 3 attempts with two 1-second delays, all within the 5-second cap.        *)
C8_ExactlyThreeAttempts ==
    \A k \in DOMAIN stack :
        stack[k].pc = "failed"
            => /\ stack[k].attempts = StopMaxAttemptNumber
               /\ stack[k].slept = 2 * WaitFixed
               /\ Elapsed(stack[k]) <= StopMaxDelay

(* delay since the first attempt began, when failed attempt n ends *)
ElapsedAfter(durs, n) == Sum(SubSeq(durs, 1, n)) + (n - 1) * WaitFixed

(* C8 (amended): make_request makes at most 3 attempts, none after a        *)
(* successful one, with a 1-second delay between consecutive attempts; when *)
(* every attempt fails it gives up at the first failed attempt that is the  *)
(* third or that ends 5 seconds or more after the first one began, and      *)
(* process_xml_link returns 1.                                              *)
C8_RetryPolicy ==
    \A k \in DOMAIN stack :
        LET f == stack[k]
        IN  /\ f.attempts <= StopMaxAttemptNumber
            /\ f.pc = "fetched" =>
                    /\ f.attempts = Len(f.durs) + 1
                    /\ f.slept = Len(f.durs) * WaitFixed
            /\ f.pc = "failed" =>
                    /\ f.attempts = Len(f.durs)
                    /\ f.slept = (f.attempts - 1) * WaitFixed
                    /\ \A n \in 1..(f.attempts - 1) : ElapsedAfter(f.durs, n) < StopMaxDelay
                    /\ \/ f.attempts = StopMaxAttemptNumber
                       \/ ElapsedAfter(f.durs, f.attempts) >= StopMaxDelay
            /\ (f.pc = "return" /\ ~f.fetched) => f.rc = 1

C8_Witness ==
    /\ stack # <<>>
    /\ Top.pc = "failed"
    /\ Top.attempts = 3
    /\ Top.slept = 2000

(* C9: recursive aggregation. Once a seed that is a dataset document with   *)
(* two links, each to a lot document with one winning participant, has been *)
(* dealt with (every fetch succeeding), two output rows were appended for   *)
(* it and the status table has one row per seed so far, the last one for    *)
(* this seed: none for a nested URL.                                        *)
OneWinnerDoc(u) ==
    /\ Known(u)
    /\ IsLotDoc(DocAt(u))
    /\ Len(DocAt(u).lots) = 1
    /\ Complete(DocAt(u).lots[1])
    /\ DocAt(u).lots[1].partecipanti = <<>>
    /\ Len(DocAt(u).lots[1].aggiudicatari) = 1

C9_RecursiveAggregation ==
    (/\ SeedDone
     /\ Known(catalog[i])
     /\ IsDatasetDoc(DocAt(catalog[i]))
     /\ Len(DocAt(catalog[i]).links) = 2
     /\ \A n \in 1..2 : OneWinnerDoc(DocAt(catalog[i]).links[n])
     /\ Len(SeedLog) = 3
     /\ failures = 0)
        => /\ Len(out) = mark.out + 2
           /\ Len(status) = Cardinality(Seeds(i))
           /\ status[Len(status)] = <<"year", catalog[i], 0>>

(* C10: isolation of per-URL failures. A dataset document's invocation      *)
(* returns only after resolving every link that differs from its own URL,   *)
(* whatever the links' outcomes; and the run ends only after the driver has *)
(* taken every catalog entry.                                               *)
C10_Isolation ==
    /\ \A k \in DOMAIN stack :
          LET f == stack[k]
          IN  (f.pc = "return" /\ f.fetched /\ IsDatasetDoc(DocAt(f.url)))
                => f.calls = Cardinality({n \in DOMAIN DocAt(f.url).links :
                                            DocAt(f.url).links[n] # f.url})
    /\ mainPc \in {"done", "crashed"} => i = Len(catalog)

(* C11: fail fast on a configuration error. In a run whose file name lacks  *)
(* the year pattern, no URL is ever fetched, no output row appended and no  *)
(* status row written.                                                      *)
C11_FailFast ==
    ~yearFound => (fetchLog = <<>> /\ out = <<>> /\ status = <<>>)

(* C12: every terminal per-URL outcome is recorded. Whenever no resolution  *)
(* is in progress and no status row is pending, the status table holds, for *)
(* every URL, one row per resolution of that URL (seed or nested link), and *)
(* the row written last carries the last seed's URL and return code.        *)
StatusRowsFor(u) == Cardinality({k \in DOMAIN status : status[k][2] = u})

C12_EveryOutcomeRecorded ==
    (stack = <<>> /\ mainPc # "status")
        => /\ \A u \in URLs : StatusRowsFor(u) = Count(fetchLog, u)
           /\ (i > 0 /\ catalog[i] # BadEntry)
                => /\ status # <<>>
                   /\ status[Len(status)] = <<"year", catalog[i], return_code>>

(* C13: failure outcomes append nothing. Whenever an invocation of          *)
(* process_xml_link is about to return 1, 2 or None, the output table has   *)
(* the length it had when the invocation started (rows are only ever       *)
(* appended, so it is the table the invocation started with).               *)
C13_FailuresAppendNothing ==
    \A k \in DOMAIN stack :
        (stack[k].pc = "return" /\ stack[k].rc \in {1, 2, None})
            => Len(out) = stack[k].base

(* a lot document with a complete lot and an incomplete one is given up     *)
(* with 2 when the table already holds rows of an earlier document          *)
C13_Witness ==
    /\ stack # <<>>
    /\ Top.pc = "return" /\ Top.rc = 2 /\ Top.fetched
    /\ IsLotDoc(DocAt(Top.url))
    /\ CompleteRows(DocAt(Top.url).lots) > 0
    /\ Top.base > 0

(* C14: vocabulary fallback. The identifier written for a participant or    *)
(* awardee element is the text of its primary tag when that tag is present  *)
(* (with or without text), else the text of its secondary tag when that one *)
(* is present, else null: secondary only gives the secondary's text, both   *)
(* give the primary's text.                                                 *)
Primary == ATTRIBUTE_VOCABULARY[1]
Secondary == ATTRIBUTE_VOCABULARY[2]
FirstTagText(e) ==
    IF e[Primary] # Absent THEN e[Primary]
    ELSE IF e[Secondary] # Absent THEN e[Secondary]
    ELSE NoText

C14_VocabularyFallback ==
    (Returning /\ Top.rc = 0 /\ IsLotDoc(DocAt(Top.url)) /\ Len(DocAt(Top.url).lots) = 1)
        => LET lotto == DocAt(Top.url).lots[1]
               es == IF lotto.partecipanti # <<>> THEN lotto.partecipanti
                     ELSE lotto.aggiudicatari
           IN  /\ Len(Appended) = Len(es)
               /\ \A j \in DOMAIN es :
                    /\ Appended[j][4] = FirstTagText(es[j])
                    /\ (es[j][Primary] = Absent /\ es[j][Secondary] # Absent)
                          => Appended[j][4] = es[j][Secondary]
                    /\ (es[j][Primary] # Absent /\ es[j][Secondary] # Absent)
                          => Appended[j][4] = es[j][Primary]
                    /\ (es[j][Primary] = Absent /\ es[j][Secondary] = Absent)
                          => Appended[j][4] = NoText

(* secondary only, then both (the primary one without text) *)
C14_Witness ==
    /\ Returning /\ Top.rc = 0 /\ IsLotDoc(DocAt(Top.url))
    /\ DocAt(Top.url).lots[1].partecipanti = <<Elem(Absent, "B"), Elem(NoText, "B")>>
    /\ Len(Appended) = 2
    /\ Appended[1][4] = "B"
    /\ Appended[2][4] = NoText

(* C15: depth-first, in-order resolution. The driver takes the catalog      *)
(* entries one by one in document order, and takes the next one only when   *)
(* the status row of every seed before it has been appended; every fetch    *)
(* and every output-row append happens while a seed is being resolved and   *)
(* the status table holds rows for the earlier seeds only; a status row is  *)
(* appended when no resolution is in progress and is the row of the seed    *)
(* taken last; a dataset invocation calls its links in link order, and goes *)
(* on to the next link only when the call for the current one has returned. *)
C15_Step ==
    /\ i' \in {i, i + 1}
    /\ i' = i + 1
          => /\ stack = <<>>
             /\ mainPc = "loop"
             /\ Len(status) = Cardinality(Seeds(i))
             /\ status' = status
    /\ fetchLog' # fetchLog
          => /\ stack' # <<>>
             /\ fetchLog' = Append(fetchLog, Top'.url)
             /\ Len(stack') = 1 => (i' = i + 1 /\ Top'.url = catalog[i'])
             /\ Len(status') = Cardinality(Seeds(i')) - 1
    /\ out' # out
          => /\ stack # <<>>
             /\ Len(out') >= Len(out)
             /\ SubSeq(out', 1, Len(out)) = out
             /\ Len(status') = Cardinality(Seeds(i')) - 1
    /\ status' # status
          => /\ stack = <<>> /\ stack' = <<>>
             /\ fetchLog' = fetchLog /\ out' = out
             /\ status' = Append(status, <<"year", catalog[i], return_code>>)
             /\ Len(status') = Cardinality(Seeds(i))
    /\ Len(stack') > Len(stack) /\ stack # <<>>
          => /\ Len(stack') = Len(stack) + 1
             /\ Top.pc = "links"
             /\ Top'.url = DocAt(Top.url).links[Top.idx]
             /\ stack'[Len(stack)].idx = Top.idx
    /\ \A k \in DOMAIN stack \cap DOMAIN stack' :
          stack'[k].idx # stack[k].idx
              => /\ k = Len(stack')
                 /\ stack'[k].idx = stack[k].idx + 1

C15_DepthFirstInOrder == [][C15_Step]_vars

(* the second entry's seed is being fetched after the first entry, a        *)
(* dataset seed with a nested fetch and a nested row, got its status row    *)
C15_Witness ==
    /\ i = 2
    /\ catalog[1] # BadEntry /\ catalog[2] # BadEntry
    /\ Len(stack) = 1 /\ Top.pc = "request"
    /\ mark.log >= 2
    /\ mark.out >= 1
    /\ status = <<<<"year", catalog[1], 0>>>>

(* C16: lot precedence. An invocation whose well-formed document has both a *)
(* lot and a dataset descendant never iterates over links: it returns with  *)
(* no nested call made and, its lots being complete, with their rows        *)
(* appended and return code 0; an invocation iterates over links, or has    *)
(* made a nested call, only for a document with a dataset descendant and no *)
(* lot descendant.                                                          *)
C16_LotPrecedence ==
    \A k \in DOMAIN stack :
        LET f == stack[k]
            doc == DocAt(f.url)
        IN  (f.fetched /\ f.pc \in {"links", "return"})
                => /\ (doc.wf /\ doc.lots # <<>> /\ doc.dataset)
                        => /\ f.pc = "return"
                           /\ f.calls = 0
                           /\ (\A n \in DOMAIN doc.lots : Complete(doc.lots[n]))
                                => /\ f.rc = 0
                                   /\ Len(out) - f.base
                                        = RowsBefore(doc.lots, Len(doc.lots) + 1)
                   /\ (f.pc = "links" \/ f.calls > 0)
                        => (doc.wf /\ doc.dataset /\ doc.lots = <<>>)

C16_Witness ==
    /\ stack # <<>>
    /\ Top.pc = "return" /\ Top.fetched /\ Top.rc = 0
    /\ DocAt(Top.url).lots # <<>>
    /\ DocAt(Top.url).dataset
    /\ DocAt(Top.url).links # <<>>
    /\ Top.calls = 0
    /\ Len(Appended) = 1

(* C17: null identifiers are not filtered. A lot document whose lots have   *)
(* their mandatory fields is processed with return code 0 whatever          *)
(* identifiers are null; each lot gets exactly one row per entry of its     *)
(* effective participant list, and the row of a null identifier carries the *)
(* null identifier, with winner = 1 exactly when some awardee identifier is *)
(* null too.                                                                *)
EffectiveElems(lotto) ==
    IF lotto.aggiudicatari # <<>> /\ lotto.partecipanti = <<>>
    THEN lotto.aggiudicatari
    ELSE lotto.partecipanti

(* the identifier read from the element is null *)
NullId(e) == FirstTagText(e) = NoText

C17_NullIdsKept ==
    (Returning /\ IsLotDoc(DocAt(Top.url))
        /\ \A k \in DOMAIN DocAt(Top.url).lots : Complete(DocAt(Top.url).lots[k]))
        => LET lots == DocAt(Top.url).lots
           IN  /\ Top.rc = 0
               /\ Len(Appended) = RowsBefore(lots, Len(lots) + 1)
               /\ \A k \in DOMAIN lots :
                    LET es == EffectiveElems(lots[k])
                        off == RowsBefore(lots, k)
                    IN  /\ ExpectedCount(lots[k]) = Len(es)
                        /\ \A j \in DOMAIN es :
                             NullId(es[j]) =>
                                /\ Appended[off + j][4] = NoText
                                /\ Appended[off + j][5] = 1
                                     <=> \E n \in DOMAIN lots[k].aggiudicatari :
                                            NullId(lots[k].aggiudicatari[n])

(* a null participant among named ones, flagged because an awardee is null  *)
C17_Witness ==
    /\ Returning /\ Top.rc = 0 /\ IsLotDoc(DocAt(Top.url))
    /\ Len(DocAt(Top.url).lots) = 1
    /\ DocAt(Top.url).lots[1].partecipanti = <<Elem("A", "B"), Elem(Absent, Absent)>>
    /\ DocAt(Top.url).lots[1].aggiudicatari = <<Elem(Absent, Absent)>>
    /\ Len(Appended) = 2
    /\ Appended[1][5] = 0
    /\ Appended[2] = <<"ente", "cf", "cig", NoText, 1>>

(* C18: nested failures are not propagated. An invocation that fetched a    *)
(* well-formed dataset document returns 0 whatever its links' resolutions   *)
(* returned; in particular the return code the driver receives for a        *)
(* fetched dataset seed is 0, even when every link failed and no row was    *)
(* appended.                                                                *)
C18_NestedFailuresDropped ==
    /\ \A k \in DOMAIN stack :
          (stack[k].pc = "return" /\ stack[k].fetched /\ IsDatasetDoc(DocAt(stack[k].url)))
              => stack[k].rc = 0
    /\ (mainPc = "status" /\ return_code # 1 /\ IsDatasetDoc(DocAt(catalog[i])))
          => return_code = 0

(* the driver holds 0 for a dataset seed with two links, one whose fetch    *)
(* failed and one serving a malformed document, no row appended             *)
C18_Witness ==
    /\ mainPc = "status"
    /\ return_code = 0
    /\ Known(catalog[i])
    /\ IsDatasetDoc(DocAt(catalog[i]))
    /\ Len(SeedLog) = 3
    /\ failures = 1
    /\ \E a, b \in URLs :
          /\ DocAt(catalog[i]).links = <<a, b>>
          /\ ~Known(a)
          /\ Known(b) /\ ~DocAt(b).wf
    /\ Len(out) = mark.out

(* C19: the URL a dataset invocation excludes is its own. A nested call is  *)
(* never for the URL of the document that holds the link; the calls an      *)
(* invocation has made are one per link seen so far that differs from its   *)
(* own URL (all of its links once it returns), a link to the URL that       *)
(* referenced the document included: an invocation keeps nothing of its     *)
(* referrer.                                                                *)
(* the links frame k has dealt with: all when returning, those up to the   *)
(* one of its pending call, those before idx when it is running            *)
LinksSeen(k) ==
    IF stack[k].pc = "return" THEN Len(DocAt(stack[k].url).links)
    ELSE IF k = Len(stack) THEN stack[k].idx - 1
    ELSE stack[k].idx

Differing(f, n) ==
    Cardinality({m \in 1..n : DocAt(f.url).links[m] # f.url})

C19_ExcludesOwnUrl ==
    \A k \in DOMAIN stack :
        LET f == stack[k]
        IN  /\ k > 1 => /\ f.url # stack[k - 1].url
                        /\ f.url = DocAt(stack[k - 1].url).links[stack[k - 1].idx]
            /\ (f.fetched /\ IsDatasetDoc(DocAt(f.url)) /\ f.pc \in {"links", "return"})
                  => f.calls = Differing(f, LinksSeen(k))
            /\ DOMAIN f = {"url", "pc", "attempts", "durs", "slept", "fetched", "idx",
                           "calls", "rc", "base"}

(* D, referenced by P, skips the link to itself and resolves the link back  *)
(* to P                                                                     *)
C19_Witness ==
    /\ Len(stack) = 3
    /\ stack[3].url = stack[1].url
    /\ stack[2].url # stack[1].url
    /\ DocAt(stack[2].url).links = <<stack[2].url, stack[1].url>>
    /\ stack[2].idx = 2
    /\ stack[2].calls = 1

(* C20: termination on acyclic input. On a web whose link graph is acyclic, *)
(* no make_request call makes more than 3 attempts, every resolution that   *)
(* has started hands a return code to the driver, and the run ends with one *)
(* status row per well-formed catalog entry.                                *)
C20_Termination ==
    /\ [](\A k \in DOMAIN stack : stack[k].attempts <= StopMaxAttemptNumber)
    /\ (stack # <<>>) ~> (mainPc = "status" /\ return_code \in {0, 1, 2, None})
    /\ <>[](/\ mainPc \in {"done", "crashed"}
            /\ stack = <<>>
            /\ Len(status) = Cardinality(Seeds(Len(catalog))))

TypeOK ==
    /\ i \in 0..Len(catalog)
    /\ Len(stack) <= MaxDepth
    /\ mainPc \in {"loop", "status", "done", "crashed"}

====
